---- MODULE Spec2Model ----
(***************************************************************************)
(* Model of the shopping-cart lifecycle workflow                            *)
(* (src/terminos_y_condiciones/workflows.py, TerminosYCondicionesWorkflow)  *)
(* and of the shipment activity it starts                                   *)
(* (src/terminos_y_condiciones/activities.py).                              *)
(*                                                                          *)
(* One workflow instance is one sequential process.  Its main coroutine,    *)
(* run, suspends at three awaits (the purchase wait with its 30 minute      *)
(* timeout, the shipment activity, the delivery wait); between two awaits   *)
(* it runs without interruption.  Every signal or update handler has no     *)
(* await of its own that suspends, so each handler is one atomic step.      *)
(* Prices are natural numbers (an amount in the smallest currency unit);    *)
(* the display name of an item takes part in no decision and is left out.   *)
(***************************************************************************)
EXTENDS Integers, FiniteSets, Sequences, TLC

\* ---------------------------------------------------------------- bounds
\* largest quantity a line may reach by merging (the code has no limit)
MaxCantidadLinea == 6
\* number of clock steps the 30 minutes are divided into
Pasos == 2
\* largest alert-history cap tried, and collector rounds explored
MaxAlertas == 2
MaxRondas == 3

\* ------------------------------------------------------ program constants
STOCK_MAXIMO == 5
TIMEOUT_MINUTOS == 30
MAXIMUM_ATTEMPTS == 3
\* the quantity above which the bundled shipment endpoint answers 400
LIMITE_CANTIDAD_ENVIO == 10
\* default of the environment variable ALERT_HISTORY_MAX
ALERT_HISTORY_MAX == 200

\* EstadoCarrito (shared.py)
ABIERTO == "ABIERTO"
PAGADO == "PAGADO"
ENVIADO == "ENVIADO"
ENTREGADO == "ENTREGADO"
CANCELADO == "CANCELADO"
ABANDONADO == "ABANDONADO"
EstadoCarrito == {ABIERTO, PAGADO, ENVIADO, ENTREGADO, CANCELADO, ABANDONADO}

\* ---------------------------------------------------------------- inputs
ItemIds == {"a", "b"}
Precios == {1, 2}
\* one unit, the stock ceiling, one more than the ceiling, and one more than
\* the bundled shipment endpoint accepts
Cantidades == {1, STOCK_MAXIMO, STOCK_MAXIMO + 1, LIMITE_CANTIDAD_ENVIO + 1}
\* the price the callers send for each item
PrecioDe == [id \in ItemIds |-> IF id = "a" THEN 1 ELSE 2]
\* Item (shared.py): the argument of the add-item signal and update
Item ==
    {i \in [item_id : ItemIds, precio : Precios, cantidad : Cantidades] :
        i.precio = PrecioDe[i.item_id]}
\* Outcomes of one HTTP call of the activity: a status code, or no response
CodigosHTTP == {200, 400, 404, 500, 503}
ErrorDeRed == 0
ResultadosLlamada == CodigosHTTP \cup {ErrorDeRed}
\* ENVIO_API_URL: the bundled endpoint of the gateway, or any other service
Endpoints == {"gateway", "otro"}

VARIABLES
    estado,               \* self.estado
    terminos_aceptados,   \* self.terminos_aceptados
    items_carrito,        \* self.items_carrito: item_id -> line record
    total_carrito,        \* self.total_carrito
    envio_resultado,      \* self.envio_resultado
    pc,                   \* where the main coroutine run is suspended
    reloj,                \* minutes elapsed since the purchase wait began
    intentos,             \* attempts of the shipment activity made so far
    envio_request,        \* the request handed to the activity
    resultado,            \* the dict run returned
    endpoint,             \* the service ENVIO_API_URL names ("" until used)
    failure_state,        \* failure_state.get(usuario_id, 0) of the gateway
    esperando_resultado,  \* a request to /envio/confirmar-recepcion awaits
                          \* handle.result()
    alert_history_max,    \* control plane: ALERT_HISTORY_MAX as configured
    alerts,               \* control plane: _state["alerts"]
    component_status,     \* control plane: _state["component_status"]
    ultimo_chequeo,       \* control plane: _state[component]["status"]
    rondas,               \* control plane: rounds of collector_loop so far
    ultimo,               \* name of the handler that ran last
    respuesta             \* what that handler gave back to its caller

vars == <<estado, terminos_aceptados, items_carrito, total_carrito,
          envio_resultado, pc, reloj, intentos, envio_request, resultado,
          endpoint, failure_state, esperando_resultado, alert_history_max,
          alerts, component_status, ultimo_chequeo, rondas, ultimo, respuesta>>

carrito == <<estado, terminos_aceptados, items_carrito, total_carrito,
             envio_resultado>>

monitor == <<alert_history_max, alerts, component_status, ultimo_chequeo,
             rondas>>

externo == <<endpoint, failure_state, esperando_resultado, monitor>>

corrutina == <<pc, reloj, intentos, envio_request, resultado, externo>>

\* ------------------------------------------------------------ data shapes
\* self.items_carrito = {} and self.envio_resultado = {}
ItemsVacio == [id \in {} |-> 0]
EnvioVacio ==
    [status |-> "", error |-> "", tracking_id |-> "", items_despachados |-> 0]
SinRequest == [enviado |-> FALSE, items |-> ItemsVacio]
SinResultado ==
    [terminos_aceptados |-> FALSE, items_carrito |-> ItemsVacio,
     total_carrito |-> 0, detalles_envio |-> EnvioVacio,
     estado_carrito |-> ABIERTO, resultado_workflow |-> ""]
\* signals return nothing to the sender
SinRespuesta ==
    [clase |-> "ninguna", tipo |-> "", mensaje |-> "", nuevo_total |-> 0]
\* ApplicationError(message, type=...) raised by the update handler
ApplicationError(mensaje, tipo) ==
    [clase |-> "error", tipo |-> tipo, mensaje |-> mensaje, nuevo_total |-> 0]
\* the dict the update returns
ItemAgregado(nuevo_total) ==
    [clase |-> "exito", tipo |-> "", mensaje |-> "Item agregado correctamente",
     nuevo_total |-> nuevo_total]

\* the dict the query returns
Snapshot(items, total, est, terminos) ==
    [clase |-> "consulta", tipo |-> "", mensaje |-> "", nuevo_total |-> 0,
     items_carrito |-> items, total_carrito |-> total,
     estado_actual |-> est, terminos_aceptados |-> terminos]

Min(a, b) == IF a < b THEN a ELSE b

\* ------------------------------------------------------- pure functions
RECURSIVE SumaSubtotales(_, _)
SumaSubtotales(items, ids) ==
    IF ids = {} THEN 0
    ELSE LET id == CHOOSE x \in ids : TRUE
         IN items[id].subtotal + SumaSubtotales(items, ids \ {id})

\* _recalcular_total: sum(item["subtotal"] for item in items.values())
recalcular_total(items) == SumaSubtotales(items, DOMAIN items)

\* The dict write of agregar_item_carrito: an item_id already in the cart
\* gets its "cantidad" increased and nothing else; a new one gets a new line.
AgregarLinea(items, item) ==
    IF item.item_id \in DOMAIN items
    THEN [items EXCEPT ![item.item_id].cantidad = @ + item.cantidad]
    ELSE [id \in DOMAIN items \cup {item.item_id} |->
            IF id = item.item_id
            THEN [precio |-> item.precio, cantidad |-> item.cantidad,
                  subtotal |-> item.precio * item.cantidad]
            ELSE items[id]]

\* del self.items_carrito[item_id]
QuitarLinea(items, item_id) == [id \in DOMAIN items \ {item_id} |-> items[id]]

\* _estado_final: the dict built from the fields as they are at the return
estado_final(resultado_workflow) ==
    [terminos_aceptados |-> terminos_aceptados',
     items_carrito |-> items_carrito',
     total_carrito |-> total_carrito',
     detalles_envio |-> envio_resultado',
     estado_carrito |-> estado',
     resultado_workflow |-> resultado_workflow]

\* The quantity of a line is capped so that the state space stays finite.
CabeEnLinea(item) ==
    item.item_id \in DOMAIN items_carrito =>
        items_carrito[item.item_id].cantidad + item.cantidad <= MaxCantidadLinea

\* ---------------------------------------------------------------- Init
\* the control plane's components and the statuses its checks give them
Componentes == {"temporal", "gateway", "workers"}
EstadosDe ==
    [c \in Componentes |->
        IF c = "workers" THEN {"unknown", "ok", "degraded"} ELSE {"ok", "error"}]

\* the workflow instance and the gateway after construction
InitCarrito ==
    /\ estado = ABIERTO
    /\ terminos_aceptados = FALSE
    /\ items_carrito = ItemsVacio
    /\ total_carrito = 0
    /\ envio_resultado = EnvioVacio
    /\ pc = "esperando_pago"
    /\ reloj = 0
    /\ intentos = 0
    /\ envio_request = SinRequest
    /\ resultado = SinResultado
    /\ endpoint = ""
    /\ failure_state = 0
    /\ esperando_resultado = FALSE
    /\ ultimo = ""
    /\ respuesta = SinRespuesta

\* _state of the control plane at import
InitMonitor ==
    /\ alerts = <<>>
    /\ component_status = [c \in Componentes |-> "None"]
    /\ ultimo_chequeo = [c \in Componentes |-> "unknown"]
    /\ rondas = 0

Init ==
    /\ InitCarrito
    /\ InitMonitor
    /\ alert_history_max = ALERT_HISTORY_MAX

\* ------------------------------------------------------- signal handlers
\* mutant: the handler body without its state gate
agregar_item_carrito_cuerpo_sin_guardia(est, items, total, item) ==
    LET nuevos == AgregarLinea(items, item)
    IN [items |-> nuevos, total |-> recalcular_total(nuevos)]

\* The body of agregar_item_carrito as a function of the fields it reads:
\* the items and the total it leaves.  The update handler calls it too.
agregar_item_carrito_cuerpo(est, items, total, item) ==
    IF est # ABIERTO
    THEN [items |-> items, total |-> total]
    ELSE LET nuevos == AgregarLinea(items, item)
         IN [items |-> nuevos, total |-> recalcular_total(nuevos)]

agregar_item_carrito(item) ==
    /\ ultimo' = "agregar_item_carrito"
    /\ CabeEnLinea(item)
    /\ respuesta' = SinRespuesta
    /\ LET r == agregar_item_carrito_cuerpo(estado, items_carrito,
                                            total_carrito, item)
       IN /\ items_carrito' = r.items
          /\ total_carrito' = r.total
    /\ UNCHANGED <<estado, terminos_aceptados, envio_resultado, corrutina>>

\* mutant: the line is deleted and the total is not recomputed
remover_item_carrito_sin_recalculo(item_id) ==
    /\ ultimo' = "remover_item_carrito"
    /\ respuesta' = SinRespuesta
    /\ IF estado # ABIERTO
       THEN UNCHANGED <<items_carrito, total_carrito>>
       ELSE IF item_id \in DOMAIN items_carrito
            THEN /\ items_carrito' = QuitarLinea(items_carrito, item_id)
                 /\ UNCHANGED total_carrito
            ELSE UNCHANGED <<items_carrito, total_carrito>>
    /\ UNCHANGED <<estado, terminos_aceptados, envio_resultado, corrutina>>

\* mutant: removing the last line cancels the cart
remover_item_carrito_cancela_vacio(item_id) ==
    /\ ultimo' = "remover_item_carrito"
    /\ respuesta' = SinRespuesta
    /\ IF estado # ABIERTO
       THEN UNCHANGED <<items_carrito, total_carrito, estado>>
       ELSE IF item_id \in DOMAIN items_carrito
            THEN /\ items_carrito' = QuitarLinea(items_carrito, item_id)
                 /\ total_carrito' = recalcular_total(items_carrito')
                 /\ estado' = IF items_carrito' = ItemsVacio
                              THEN CANCELADO ELSE estado
            ELSE UNCHANGED <<items_carrito, total_carrito, estado>>
    /\ UNCHANGED <<terminos_aceptados, envio_resultado, corrutina>>

\* mutant: a line is removed whatever the state of the cart
remover_item_carrito_sin_guardia(item_id) ==
    /\ ultimo' = "remover_item_carrito"
    /\ respuesta' = SinRespuesta
    /\ IF item_id \in DOMAIN items_carrito
       THEN /\ items_carrito' = QuitarLinea(items_carrito, item_id)
            /\ total_carrito' = recalcular_total(items_carrito')
       ELSE UNCHANGED <<items_carrito, total_carrito>>
    /\ UNCHANGED <<estado, terminos_aceptados, envio_resultado, corrutina>>

remover_item_carrito(item_id) ==
    /\ ultimo' = "remover_item_carrito"
    /\ respuesta' = SinRespuesta
    /\ IF estado # ABIERTO
       THEN UNCHANGED <<items_carrito, total_carrito>>
       ELSE IF item_id \in DOMAIN items_carrito
            THEN /\ items_carrito' = QuitarLinea(items_carrito, item_id)
                 /\ total_carrito' = recalcular_total(items_carrito')
            ELSE UNCHANGED <<items_carrito, total_carrito>>
    /\ UNCHANGED <<estado, terminos_aceptados, envio_resultado, corrutina>>

\* mutant: the terms are accepted whatever the state of the cart
aceptar_terminos_sin_guardia ==
    /\ ultimo' = "aceptar_terminos"
    /\ respuesta' = SinRespuesta
    /\ terminos_aceptados' = TRUE
    /\ UNCHANGED <<estado, items_carrito, total_carrito, envio_resultado,
                   corrutina>>

aceptar_terminos ==
    /\ ultimo' = "aceptar_terminos"
    /\ respuesta' = SinRespuesta
    /\ IF estado # ABIERTO
       THEN UNCHANGED terminos_aceptados
       ELSE terminos_aceptados' = TRUE
    /\ UNCHANGED <<estado, items_carrito, total_carrito, envio_resultado,
                   corrutina>>

\* mutant: the purchase is completed without the terms check
completar_compra_sin_terminos ==
    /\ ultimo' = "completar_compra"
    /\ respuesta' = SinRespuesta
    /\ IF estado = ABIERTO
       THEN estado' = PAGADO
       ELSE UNCHANGED estado
    /\ UNCHANGED <<terminos_aceptados, items_carrito, total_carrito,
                   envio_resultado, corrutina>>

\* mutant: a rejected purchase gives the cart a new 30 minutes
completar_compra_reinicia_plazo ==
    /\ ultimo' = "completar_compra"
    /\ respuesta' = SinRespuesta
    /\ IF estado = ABIERTO
       THEN IF ~terminos_aceptados
            THEN UNCHANGED estado /\ reloj' = 0
            ELSE estado' = PAGADO /\ UNCHANGED reloj
       ELSE UNCHANGED <<estado, reloj>>
    /\ UNCHANGED <<terminos_aceptados, items_carrito, total_carrito,
                   envio_resultado, pc, intentos, envio_request, resultado,
                   externo>>

completar_compra ==
    /\ ultimo' = "completar_compra"
    /\ respuesta' = SinRespuesta
    /\ IF estado = ABIERTO
       THEN IF ~terminos_aceptados
            THEN UNCHANGED estado
            ELSE estado' = PAGADO
       ELSE UNCHANGED estado
    /\ UNCHANGED <<terminos_aceptados, items_carrito, total_carrito,
                   envio_resultado, corrutina>>

\* mutant: the reception is confirmed in any state
confirmar_recepcion_sin_guardia ==
    /\ ultimo' = "confirmar_recepcion"
    /\ respuesta' = SinRespuesta
    /\ estado' = ENTREGADO
    /\ UNCHANGED <<terminos_aceptados, items_carrito, total_carrito,
                   envio_resultado, corrutina>>

\* mutant: the reception is also confirmed while the shipment is in flight
confirmar_recepcion_en_pagado ==
    /\ ultimo' = "confirmar_recepcion"
    /\ respuesta' = SinRespuesta
    /\ IF estado \in {PAGADO, ENVIADO}
       THEN estado' = ENTREGADO
       ELSE UNCHANGED estado
    /\ UNCHANGED <<terminos_aceptados, items_carrito, total_carrito,
                   envio_resultado, corrutina>>

confirmar_recepcion ==
    /\ ultimo' = "confirmar_recepcion"
    /\ respuesta' = SinRespuesta
    /\ IF estado = ENVIADO
       THEN estado' = ENTREGADO
       ELSE UNCHANGED estado
    /\ UNCHANGED <<terminos_aceptados, items_carrito, total_carrito,
                   envio_resultado, corrutina>>

\* ------------------------------------------------------------------ query
\* mutant: the query is answered only while run has not returned
obtener_estado_solo_en_curso ==
    /\ pc # "terminado"
    /\ ultimo' = "obtener_estado"
    /\ respuesta' = Snapshot(items_carrito, total_carrito, estado,
                             terminos_aceptados)
    /\ UNCHANGED <<carrito, corrutina>>

obtener_estado ==
    /\ ultimo' = "obtener_estado"
    /\ respuesta' = Snapshot(items_carrito, total_carrito, estado,
                             terminos_aceptados)
    /\ UNCHANGED <<carrito, corrutina>>

\* --------------------------------------------------------- update handler
\* mutant: the stock check runs after the cart was written
agregar_item_seguro_valida_despues(item) ==
    /\ ultimo' = "agregar_item_seguro"
    /\ CabeEnLinea(item)
    /\ IF estado # ABIERTO
       THEN /\ respuesta' = ApplicationError("No se pueden agregar items", "")
            /\ UNCHANGED <<items_carrito, total_carrito>>
       ELSE /\ LET r == agregar_item_carrito_cuerpo(estado, items_carrito,
                                                    total_carrito, item)
               IN /\ items_carrito' = r.items
                  /\ total_carrito' = r.total
            /\ IF item.cantidad > STOCK_MAXIMO
               THEN respuesta' = ApplicationError("Stock insuficiente",
                                                  "StockInsuficiente")
               ELSE respuesta' = ItemAgregado(total_carrito')
    /\ UNCHANGED <<estado, terminos_aceptados, envio_resultado, corrutina>>

\* mutant: the stock check runs before the state check
agregar_item_seguro_stock_primero(item) ==
    /\ ultimo' = "agregar_item_seguro"
    /\ CabeEnLinea(item)
    /\ IF item.cantidad > STOCK_MAXIMO
       THEN /\ respuesta' = ApplicationError("Stock insuficiente",
                                             "StockInsuficiente")
            /\ UNCHANGED <<items_carrito, total_carrito>>
       ELSE IF estado # ABIERTO
            THEN /\ respuesta' = ApplicationError("No se pueden agregar items", "")
                 /\ UNCHANGED <<items_carrito, total_carrito>>
            ELSE /\ LET r == agregar_item_carrito_cuerpo(estado, items_carrito,
                                                         total_carrito, item)
                    IN /\ items_carrito' = r.items
                       /\ total_carrito' = r.total
                 /\ respuesta' = ItemAgregado(total_carrito')
    /\ UNCHANGED <<estado, terminos_aceptados, envio_resultado, corrutina>>

\* mutant: the payload echoes the total read before the cart was written
agregar_item_seguro_total_previo(item) ==
    /\ ultimo' = "agregar_item_seguro"
    /\ CabeEnLinea(item)
    /\ IF estado # ABIERTO
       THEN /\ respuesta' = ApplicationError("No se pueden agregar items", "")
            /\ UNCHANGED <<items_carrito, total_carrito>>
       ELSE IF item.cantidad > STOCK_MAXIMO
            THEN /\ respuesta' = ApplicationError("Stock insuficiente",
                                                  "StockInsuficiente")
                 /\ UNCHANGED <<items_carrito, total_carrito>>
            ELSE /\ LET r == agregar_item_carrito_cuerpo(estado, items_carrito,
                                                         total_carrito, item)
                    IN /\ items_carrito' = r.items
                       /\ total_carrito' = r.total
                 /\ respuesta' = ItemAgregado(total_carrito)
    /\ UNCHANGED <<estado, terminos_aceptados, envio_resultado, corrutina>>

\* The state check, then the stock check, then the body of the signal
\* handler agregar_item_carrito (whose own state check passes again), then
\* the payload with the total as it is after the write.
agregar_item_seguro(item) ==
    /\ ultimo' = "agregar_item_seguro"
    /\ CabeEnLinea(item)
    /\ IF estado # ABIERTO
       THEN /\ respuesta' = ApplicationError("No se pueden agregar items", "")
            /\ UNCHANGED <<items_carrito, total_carrito>>
       ELSE IF item.cantidad > STOCK_MAXIMO
            THEN /\ respuesta' = ApplicationError("Stock insuficiente",
                                                  "StockInsuficiente")
                 /\ UNCHANGED <<items_carrito, total_carrito>>
            ELSE /\ LET r == agregar_item_carrito_cuerpo(estado, items_carrito,
                                                         total_carrito, item)
                    IN /\ items_carrito' = r.items
                       /\ total_carrito' = r.total
                 /\ respuesta' = ItemAgregado(total_carrito')
    /\ UNCHANGED <<estado, terminos_aceptados, envio_resultado, corrutina>>

\* ------------------------------------------------- gateway: add an item
\* What execute_update gives the gateway for an answer of the update handler:
\* an ApplicationError raised by the handler arrives as the cause of a
\* WorkflowUpdateFailedError.
Despacho(resp) ==
    IF resp.clase = "error"
    THEN [excepcion |-> "WorkflowUpdateFailedError", causa |-> "ApplicationError"]
    ELSE [excepcion |-> "ninguna", causa |-> ""]

\* The failures of the dispatch that are not a rejection by the cart: an
\* update that failed with another cause, and any other exception of
\* get_workflow_handle or execute_update (server unreachable, RPC error).
FallosDespacho ==
    {[excepcion |-> "WorkflowUpdateFailedError", causa |-> "otra"],
     [excepcion |-> "Exception", causa |-> ""]}

\* The HTTP status /carrito/agregar-item answers with.
agregar_item_carrito_http(d) ==
    IF d.excepcion = "ninguna" THEN 200
    ELSE IF d.excepcion = "WorkflowUpdateFailedError"
    THEN IF d.causa = "ApplicationError" THEN 422 ELSE 500
    ELSE 400

\* A request to /carrito/agregar-item whose dispatch fails before the update
\* handler gives an answer: the cart is not touched.
gateway_agregar_item_falla(d) ==
    /\ ultimo' = "gateway_agregar_item"
    /\ respuesta' = [clase |-> "despacho", tipo |-> d.excepcion,
                     mensaje |-> d.causa, nuevo_total |-> 0]
    /\ UNCHANGED <<carrito, corrutina>>

\* ------------------------------------- gateway: confirm the reception
\* the body /envio/confirmar-recepcion answers with after handle.result()
CicloVidaFinalizado(resultado_final) ==
    [clase |-> "http", tipo |-> "ciclo_vida_finalizado",
     mensaje |-> "El cliente ha recibido el producto y el workflow ha terminado.",
     nuevo_total |-> 0, status |-> 200, resultado_final |-> resultado_final]

\* the HTTPException(400) of the endpoint's except clause
ConfirmacionFallida ==
    [clase |-> "http", tipo |-> "error", mensaje |-> "", nuevo_total |-> 0,
     status |-> 400, resultado_final |-> SinResultado]

\* A request to /envio/confirmar-recepcion: the signal is sent, which fails
\* for a workflow that has already returned, and the endpoint goes on to
\* await handle.result(). The signal it sends is handled by
\* confirmar_recepcion as a step of the workflow.
gateway_confirmar_recepcion ==
    /\ ~esperando_resultado
    /\ IF pc = "terminado"
       THEN /\ ultimo' = "gateway_confirmar_recepcion"
            /\ respuesta' = ConfirmacionFallida
            /\ UNCHANGED esperando_resultado
       ELSE /\ esperando_resultado' = TRUE
            /\ UNCHANGED <<ultimo, respuesta>>
    /\ UNCHANGED <<carrito, pc, reloj, intentos, envio_request, resultado,
                   endpoint, failure_state, monitor>>

\* handle.result() returns what run returned, and the endpoint answers.
gateway_confirmar_recepcion_responde ==
    /\ esperando_resultado
    /\ pc = "terminado"
    /\ esperando_resultado' = FALSE
    /\ ultimo' = "gateway_confirmar_recepcion"
    /\ respuesta' = CicloVidaFinalizado(resultado)
    /\ UNCHANGED <<carrito, pc, reloj, intentos, envio_request, resultado,
                   endpoint, failure_state, monitor>>

\* ------------------------------------------------------ shipment activity
\* mutant: a 4xx response is re-raised like a 5xx one
despachar_envio_activity_4xx_reintentable(r, request) ==
    IF r = ErrorDeRed
    THEN [clase |-> "reintentable", causa |-> "RequestError"]
    ELSE IF r < 400
    THEN [clase |-> "exito", causa |-> ""]
    ELSE [clase |-> "reintentable", causa |-> "HTTPStatusError"]

\* What one attempt of despachar_envio_activity gives for the outcome r of
\* its HTTP call: the response body, a non-retryable ApplicationError (4xx),
\* or the httpx exception re-raised (5xx, no response).
despachar_envio_activity(r, request) ==
    IF r = ErrorDeRed
    THEN [clase |-> "reintentable", causa |-> "RequestError"]
    ELSE IF r < 400
    THEN [clase |-> "exito", causa |-> ""]
    ELSE IF 400 <= r /\ r < 500
    THEN [clase |-> "no_reintentable", causa |-> "NonRetryableAPIError"]
    ELSE [clase |-> "reintentable", causa |-> "HTTPStatusError"]

\* response.json() of the shipment endpoint for a request it accepts
EnvioProgramado(request) ==
    [status |-> "envio_programado", error |-> "",
     tracking_id |-> "TRK-usuario-999",
     items_despachados |-> Cardinality(DOMAIN request.items)]

\* mutant: the bundled endpoint fails the first two calls of a user
despachar_envio_falla_dos_veces(request, user_attempts) ==
    IF \E id \in DOMAIN request.items :
           request.items[id].cantidad > LIMITE_CANTIDAD_ENVIO
    THEN [status |-> 400, failure_state |-> user_attempts]
    ELSE IF user_attempts <= 1
    THEN [status |-> 503, failure_state |-> user_attempts + 1]
    ELSE [status |-> 200, failure_state |-> 0]

\* The bundled shipment endpoint of the gateway (/envio/despachar): the
\* status it answers and the entry of failure_state it leaves for the user.
despachar_envio(request, user_attempts) ==
    IF \E id \in DOMAIN request.items :
           request.items[id].cantidad > LIMITE_CANTIDAD_ENVIO
    THEN [status |-> 400, failure_state |-> user_attempts]
    ELSE IF user_attempts = 0
    THEN [status |-> 503, failure_state |-> user_attempts + 1]
    ELSE [status |-> 200, failure_state |-> 0]

\* ------------------------------------------------------- main coroutine
\* The condition of the purchase wait
PagoDecidido == estado \in {PAGADO, CANCELADO}

\* Time passes while run is suspended in the purchase wait.
Tick ==
    /\ pc = "esperando_pago"
    /\ ~PagoDecidido
    /\ reloj < TIMEOUT_MINUTOS
    /\ reloj' = Min(reloj + (TIMEOUT_MINUTOS \div Pasos), TIMEOUT_MINUTOS)
    /\ UNCHANGED <<carrito, pc, intentos, envio_request, resultado, externo,
                   ultimo, respuesta>>

\* mutant: the timer fires although the condition of the wait holds
run_timeout_sin_condicion ==
    /\ pc = "esperando_pago"
    /\ reloj = TIMEOUT_MINUTOS
    /\ estado' = ABANDONADO
    /\ UNCHANGED <<terminos_aceptados, items_carrito, total_carrito,
                   envio_resultado>>
    /\ resultado' = estado_final("ABANDONADO_TIMEOUT")
    /\ pc' = "terminado"
    /\ UNCHANGED <<reloj, intentos, envio_request, externo, ultimo, respuesta>>

\* mutant: the timeout returns without writing the state
run_timeout_sin_estado ==
    /\ pc = "esperando_pago"
    /\ ~PagoDecidido
    /\ reloj = TIMEOUT_MINUTOS
    /\ UNCHANGED estado
    /\ UNCHANGED <<terminos_aceptados, items_carrito, total_carrito,
                   envio_resultado>>
    /\ resultado' = estado_final("ABANDONADO_TIMEOUT")
    /\ pc' = "terminado"
    /\ UNCHANGED <<reloj, intentos, envio_request, externo, ultimo, respuesta>>

\* wait_condition raises TimeoutError: the 30 minutes elapsed and the
\* condition never held.
run_timeout ==
    /\ pc = "esperando_pago"
    /\ ~PagoDecidido
    /\ reloj = TIMEOUT_MINUTOS
    /\ estado' = ABANDONADO
    /\ UNCHANGED <<terminos_aceptados, items_carrito, total_carrito,
                   envio_resultado>>
    /\ resultado' = estado_final("ABANDONADO_TIMEOUT")
    /\ pc' = "terminado"
    /\ UNCHANGED <<reloj, intentos, envio_request, externo, ultimo, respuesta>>

\* mutant: the shipment is started without waiting for the payment
run_pago_sin_esperar ==
    /\ pc = "esperando_pago"
    /\ UNCHANGED carrito
    /\ IF estado = CANCELADO
       THEN /\ resultado' = estado_final("CANCELADO_POR_USUARIO")
            /\ pc' = "terminado"
            /\ UNCHANGED <<envio_request, endpoint>>
       ELSE /\ envio_request' = [enviado |-> TRUE, items |-> items_carrito]
            /\ pc' = "en_envio"
            /\ endpoint' \in Endpoints
            /\ UNCHANGED resultado
    /\ UNCHANGED <<reloj, intentos, failure_state, esperando_resultado,
                   monitor, ultimo, respuesta>>

\* wait_condition returns: either the cancelled return, or the request is
\* built from the cart and the activity is started.
run_pago ==
    /\ pc = "esperando_pago"
    /\ PagoDecidido
    /\ UNCHANGED carrito
    /\ IF estado = CANCELADO
       THEN /\ resultado' = estado_final("CANCELADO_POR_USUARIO")
            /\ pc' = "terminado"
            /\ UNCHANGED <<envio_request, endpoint>>
       ELSE /\ envio_request' = [enviado |-> TRUE, items |-> items_carrito]
            /\ pc' = "en_envio"
            /\ endpoint' \in Endpoints
            /\ UNCHANGED resultado
    /\ UNCHANGED <<reloj, intentos, failure_state, esperando_resultado,
                   monitor, ultimo, respuesta>>

\* mutant: the retry budget is one attempt too long
run_envio_un_intento_mas(r) ==
    /\ pc = "en_envio"
    /\ intentos <= MAXIMUM_ATTEMPTS
    /\ intentos' = intentos + 1
    /\ IF endpoint = "gateway"
       THEN LET g == despachar_envio(envio_request, failure_state)
            IN r = g.status /\ failure_state' = g.failure_state
       ELSE UNCHANGED failure_state
    /\ LET a == despachar_envio_activity(r, envio_request) IN
       IF a.clase = "exito"
       THEN /\ envio_resultado' = EnvioProgramado(envio_request)
            /\ estado' = ENVIADO
            /\ pc' = "esperando_entrega"
            /\ UNCHANGED resultado
            /\ UNCHANGED <<terminos_aceptados, items_carrito, total_carrito>>
       ELSE IF a.clase = "no_reintentable" \/ intentos' > MAXIMUM_ATTEMPTS
       THEN /\ envio_resultado' =
                  [status |-> "FALLIDO", error |-> a.causa,
                   tracking_id |-> "", items_despachados |-> 0]
            /\ UNCHANGED <<estado, terminos_aceptados, items_carrito,
                           total_carrito>>
            /\ resultado' = estado_final("ENVIO_FALLIDO")
            /\ pc' = "terminado"
       ELSE UNCHANGED <<carrito, pc, resultado>>
    /\ UNCHANGED <<reloj, envio_request, endpoint, esperando_resultado,
                   monitor, ultimo, respuesta>>

\* mutant: the failure record does not carry the cause
run_envio_error_generico(r) ==
    /\ pc = "en_envio"
    /\ intentos < MAXIMUM_ATTEMPTS
    /\ intentos' = intentos + 1
    /\ IF endpoint = "gateway"
       THEN LET g == despachar_envio(envio_request, failure_state)
            IN r = g.status /\ failure_state' = g.failure_state
       ELSE UNCHANGED failure_state
    /\ LET a == despachar_envio_activity(r, envio_request) IN
       IF a.clase = "exito"
       THEN /\ envio_resultado' = EnvioProgramado(envio_request)
            /\ estado' = ENVIADO
            /\ pc' = "esperando_entrega"
            /\ UNCHANGED resultado
            /\ UNCHANGED <<terminos_aceptados, items_carrito, total_carrito>>
       ELSE IF a.clase = "no_reintentable" \/ intentos' >= MAXIMUM_ATTEMPTS
       THEN /\ envio_resultado' =
                  [status |-> "FALLIDO", error |-> "fallo",
                   tracking_id |-> "", items_despachados |-> 0]
            /\ UNCHANGED <<estado, terminos_aceptados, items_carrito,
                           total_carrito>>
            /\ resultado' = estado_final("ENVIO_FALLIDO")
            /\ pc' = "terminado"
       ELSE UNCHANGED <<carrito, pc, resultado>>
    /\ UNCHANGED <<reloj, envio_request, endpoint, esperando_resultado,
                   monitor, ultimo, respuesta>>

\* mutant: every failed attempt leaves its failure in envio_resultado
run_envio_registra_cada_fallo(r) ==
    /\ pc = "en_envio"
    /\ intentos < MAXIMUM_ATTEMPTS
    /\ intentos' = intentos + 1
    /\ IF endpoint = "gateway"
       THEN LET g == despachar_envio(envio_request, failure_state)
            IN r = g.status /\ failure_state' = g.failure_state
       ELSE UNCHANGED failure_state
    /\ LET a == despachar_envio_activity(r, envio_request) IN
       IF a.clase = "exito"
       THEN /\ envio_resultado' = EnvioProgramado(envio_request)
            /\ estado' = ENVIADO
            /\ pc' = "esperando_entrega"
            /\ UNCHANGED resultado
            /\ UNCHANGED <<terminos_aceptados, items_carrito, total_carrito>>
       ELSE /\ envio_resultado' =
                  [status |-> "FALLIDO", error |-> a.causa,
                   tracking_id |-> "", items_despachados |-> intentos']
            /\ UNCHANGED <<estado, terminos_aceptados, items_carrito,
                           total_carrito>>
            /\ IF a.clase = "no_reintentable" \/ intentos' >= MAXIMUM_ATTEMPTS
               THEN /\ resultado' = estado_final("ENVIO_FALLIDO")
                    /\ pc' = "terminado"
               ELSE UNCHANGED <<pc, resultado>>
    /\ UNCHANGED <<reloj, envio_request, endpoint, esperando_resultado,
                   monitor, ultimo, respuesta>>

\* mutant: a failed shipment ends the run without a failure record
run_envio_sin_registro_de_fallo(r) ==
    /\ pc = "en_envio"
    /\ intentos < MAXIMUM_ATTEMPTS
    /\ intentos' = intentos + 1
    /\ IF endpoint = "gateway"
       THEN LET g == despachar_envio(envio_request, failure_state)
            IN r = g.status /\ failure_state' = g.failure_state
       ELSE UNCHANGED failure_state
    /\ LET a == despachar_envio_activity(r, envio_request) IN
       IF a.clase = "exito"
       THEN /\ envio_resultado' = EnvioProgramado(envio_request)
            /\ estado' = ENVIADO
            /\ pc' = "esperando_entrega"
            /\ UNCHANGED resultado
            /\ UNCHANGED <<terminos_aceptados, items_carrito, total_carrito>>
       ELSE IF a.clase = "no_reintentable" \/ intentos' >= MAXIMUM_ATTEMPTS
       THEN /\ UNCHANGED carrito
            /\ resultado' = estado_final("ENVIO_FALLIDO")
            /\ pc' = "terminado"
       ELSE UNCHANGED <<carrito, pc, resultado>>
    /\ UNCHANGED <<reloj, envio_request, endpoint, esperando_resultado,
                   monitor, ultimo, respuesta>>

\* One attempt of the activity under the retry policy of start_activity,
\* and what run does when the activity resolves.
run_envio(r) ==
    /\ pc = "en_envio"
    /\ intentos < MAXIMUM_ATTEMPTS
    /\ intentos' = intentos + 1
    /\ IF endpoint = "gateway"
       THEN LET g == despachar_envio(envio_request, failure_state)
            IN r = g.status /\ failure_state' = g.failure_state
       ELSE UNCHANGED failure_state
    /\ LET a == despachar_envio_activity(r, envio_request) IN
       IF a.clase = "exito"
       THEN /\ envio_resultado' = EnvioProgramado(envio_request)
            /\ estado' = ENVIADO
            /\ pc' = "esperando_entrega"
            /\ UNCHANGED resultado
            /\ UNCHANGED <<terminos_aceptados, items_carrito, total_carrito>>
       ELSE IF a.clase = "no_reintentable" \/ intentos' >= MAXIMUM_ATTEMPTS
       THEN /\ envio_resultado' =
                  [status |-> "FALLIDO", error |-> a.causa,
                   tracking_id |-> "", items_despachados |-> 0]
            /\ UNCHANGED <<estado, terminos_aceptados, items_carrito,
                           total_carrito>>
            /\ resultado' = estado_final("ENVIO_FALLIDO")
            /\ pc' = "terminado"
       ELSE UNCHANGED <<carrito, pc, resultado>>
    /\ UNCHANGED <<reloj, envio_request, endpoint, esperando_resultado,
                   monitor, ultimo, respuesta>>

\* run_entrega returning without waiting for the delivery
run_entrega_sin_condicion ==
    /\ pc = "esperando_entrega"
    /\ UNCHANGED carrito
    /\ resultado' = estado_final("COMPLETADO_ENTREGADO")
    /\ pc' = "terminado"
    /\ UNCHANGED <<reloj, intentos, envio_request, externo, ultimo, respuesta>>

\* The delivery wait returns.
run_entrega ==
    /\ pc = "esperando_entrega"
    /\ estado = ENTREGADO
    /\ UNCHANGED carrito
    /\ resultado' = estado_final("COMPLETADO_ENTREGADO")
    /\ pc' = "terminado"
    /\ UNCHANGED <<reloj, intentos, envio_request, externo, ultimo, respuesta>>

\* ------------------------------------------------------------------ Next
\* A handler may run at any position of run: before it resumes from a wait
\* whose condition already holds, and after it has returned.
Next ==
    \/ \E item \in Item : agregar_item_carrito(item)
    \/ \E item \in Item : agregar_item_seguro(item)
    \/ \E item_id \in ItemIds : remover_item_carrito(item_id)
    \/ aceptar_terminos
    \/ completar_compra
    \/ confirmar_recepcion
    \/ obtener_estado
    \/ Tick
    \/ run_timeout
    \/ run_pago
    \/ \E r \in ResultadosLlamada : run_envio(r)
    \/ run_entrega

Spec == Init /\ [][Next]_vars

\* The workflow together with the gateway's requests that do more than pass
\* a command on: the failed dispatch of an add-item request, and the request
\* that confirms the reception and waits for the result of run.
GatewayNext ==
    \/ Next
    \/ \E d \in FallosDespacho : gateway_agregar_item_falla(d)
    \/ gateway_confirmar_recepcion
    \/ gateway_confirmar_recepcion_responde

GatewaySpec == Init /\ [][GatewayNext]_vars

\* --------------------------------------------------------- control plane
\* lista[-n:]
Ultimos(lista, n) ==
    IF n = 0 \/ Len(lista) <= n
    THEN lista
    ELSE SubSeq(lista, Len(lista) - n + 1, Len(lista))

\* _record_alert: what _state["alerts"] is after the call
record_alert(lista, max, component, status) ==
    LET nueva == Append(lista, [component |-> component, status |-> status])
    IN IF Len(nueva) > max THEN Ultimos(nueva, max) ELSE nueva

\* _update_component_status on m = [alerts, component_status]
update_component_status(m, max, component, status) ==
    IF m.component_status[component] # status
    THEN [alerts |-> record_alert(m.alerts, max, component, status),
          component_status |->
              [m.component_status EXCEPT ![component] = status]]
    ELSE m

\* One round of collector_loop, with the statuses its three checks found.
collector_loop(t, g, w) ==
    /\ rondas < MaxRondas
    /\ rondas' = rondas + 1
    /\ ultimo_chequeo' = [c \in Componentes |->
                             IF c = "temporal" THEN t
                             ELSE IF c = "gateway" THEN g ELSE w]
    /\ LET m0 == [alerts |-> alerts, component_status |-> component_status]
           m1 == update_component_status(m0, alert_history_max, "temporal", t)
           m2 == update_component_status(m1, alert_history_max, "gateway", g)
           m3 == update_component_status(m2, alert_history_max, "workers", w)
       IN /\ alerts' = m3.alerts
          /\ component_status' = m3.component_status
    /\ UNCHANGED <<alert_history_max, carrito, pc, reloj, intentos,
                   envio_request, resultado, endpoint, failure_state,
                   esperando_resultado, ultimo, respuesta>>

\* The control plane started with some cap configured.
MonitorInit ==
    /\ InitCarrito
    /\ InitMonitor
    /\ alert_history_max \in 0..MaxAlertas

MonitorNext ==
    \E t \in EstadosDe["temporal"], g \in EstadosDe["gateway"],
       w \in EstadosDe["workers"] : collector_loop(t, g, w)

MonitorSpec == MonitorInit /\ [][MonitorNext]_vars

\* The timer service fires a due timer, and time does not stop.
LiveSpec == Spec /\ WF_vars(Tick) /\ WF_vars(run_timeout)

\* A wait whose condition holds resumes: the delivery wait has no timeout.
EntregaSpec == Spec /\ WF_vars(run_entrega)

\* ================================================================ claims

\* C1: while and after add/remove commands are applied, total_carrito equals
\* the sum of the subtotal fields of the lines now in the cart, and an empty
\* cart has total 0.
C1_TotalEsSumaDeSubtotales ==
    /\ total_carrito = SumaSubtotales(items_carrito, DOMAIN items_carrito)
    /\ (DOMAIN items_carrito = {} => total_carrito = 0)

\* C1 witness: a remove was handled on an open cart that still has a line
\* whose quantity was merged, and the total is not zero.
C1_Witness ==
    /\ estado = ABIERTO
    /\ ultimo = "remover_item_carrito"
    /\ total_carrito > 0
    /\ \E id \in DOMAIN items_carrito :
           items_carrito[id].cantidad = STOCK_MAXIMO + 1

\* C2: every line of the cart has subtotal = precio * cantidad, also after an
\* add for an item_id already in the cart.
C2_SubtotalEsPrecioPorCantidad ==
    \A id \in DOMAIN items_carrito :
        items_carrito[id].subtotal =
            items_carrito[id].precio * items_carrito[id].cantidad

\* C3: the validated add handled on an open cart with a quantity above 5
\* fails with type StockInsuficiente and leaves items and total as they were.
C3_StockInsuficiente ==
    [][\A item \in Item :
          (estado = ABIERTO /\ item.cantidad > 5 /\ agregar_item_seguro(item))
          => /\ respuesta'.clase = "error"
             /\ respuesta'.tipo = "StockInsuficiente"
             /\ UNCHANGED <<items_carrito, total_carrito>>]_vars

\* C3 witness: an open, non-empty cart whose last command was a validated add
\* rejected for stock.
C3_Witness ==
    /\ estado = ABIERTO
    /\ ultimo = "agregar_item_seguro"
    /\ respuesta.clase = "error"
    /\ respuesta.tipo = "StockInsuficiente"
    /\ items_carrito # ItemsVacio

\* C4: the validated add handled on a cart that is not open fails, for every
\* quantity, with the state error, which is not the StockInsuficiente one,
\* and leaves items, total and state as they were.
C4_EstadoInvalido ==
    [][\A item \in Item :
          (estado # ABIERTO /\ agregar_item_seguro(item))
          => /\ respuesta'.clase = "error"
             /\ respuesta'.tipo # "StockInsuficiente"
             /\ respuesta'.mensaje = "No se pueden agregar items"
             /\ UNCHANGED <<items_carrito, total_carrito, estado>>]_vars

\* C4 witness: a paid, non-empty cart whose last command was a validated add
\* rejected with the state error.
C4_Witness ==
    /\ estado = PAGADO
    /\ ultimo = "agregar_item_seguro"
    /\ respuesta.clase = "error"
    /\ respuesta.mensaje = "No se pueden agregar items"
    /\ items_carrito # ItemsVacio

\* C5: a validated add that passes both checks leaves the items and total the
\* add signal would leave from the same cart and item, and its payload
\* carries the total as it is after the write.
C5_MismoEfectoQueSignal ==
    [][\A item \in Item :
          (estado = ABIERTO /\ item.cantidad <= 5 /\ agregar_item_seguro(item))
          => LET r == agregar_item_carrito_cuerpo(estado, items_carrito,
                                                  total_carrito, item)
             IN /\ items_carrito' = r.items
                /\ total_carrito' = r.total
                /\ respuesta'.clase = "exito"
                /\ respuesta'.nuevo_total = total_carrito']_vars

\* C5 witness: the last command was a validated add that succeeded on a cart
\* that holds two lines, one of them merged.
C5_Witness ==
    /\ ultimo = "agregar_item_seguro"
    /\ respuesta.clase = "exito"
    /\ respuesta.nuevo_total = total_carrito
    /\ Cardinality(DOMAIN items_carrito) = 2
    /\ \E id \in DOMAIN items_carrito :
           items_carrito[id].subtotal #
               items_carrito[id].precio * items_carrito[id].cantidad

\* C6: an add or remove signal handled on a cart that is not open changes no
\* field of the cart and returns nothing to its sender.
C6_SignalFueraDeAbiertoEsNoOp ==
    [][/\ \A item \in Item :
             (estado # ABIERTO /\ agregar_item_carrito(item))
             => UNCHANGED carrito /\ respuesta' = SinRespuesta
       /\ \A item_id \in ItemIds :
             (estado # ABIERTO /\ remover_item_carrito(item_id))
             => UNCHANGED carrito /\ respuesta' = SinRespuesta]_vars

\* C6 witness: a remove signal was handled on a paid cart that holds lines.
C6_Witness ==
    /\ estado = PAGADO
    /\ ultimo = "remover_item_carrito"
    /\ Cardinality(DOMAIN items_carrito) = 2

\* C7: completar_compra handled with the terms not accepted leaves the state
\* as it was, and the state becomes PAGADO only in a completar_compra step
\* taken from ABIERTO with the terms accepted.
C7_PagoSoloConTerminos ==
    [][/\ (completar_compra /\ ~terminos_aceptados) => estado' = estado
       /\ (estado # PAGADO /\ estado' = PAGADO)
             => completar_compra /\ estado = ABIERTO /\ terminos_aceptados]_vars

\* C7 witness: completar_compra was handled on an open cart whose terms are
\* not accepted, and the cart is still open.
C7_Witness ==
    /\ ultimo = "completar_compra"
    /\ ~terminos_aceptados
    /\ estado = ABIERTO
    /\ pc = "esperando_pago"
    /\ items_carrito # ItemsVacio

\* The edges of the lifecycle graph
Transiciones ==
    {<<ABIERTO, PAGADO>>, <<ABIERTO, CANCELADO>>, <<ABIERTO, ABANDONADO>>,
     <<PAGADO, ENVIADO>>, <<ENVIADO, ENTREGADO>>}

\* C8: the state starts ABIERTO and every change of it is an edge of the
\* lifecycle graph.
C8_TransicionesDelGrafo ==
    /\ estado = ABIERTO
    /\ [][estado' # estado => <<estado, estado'>> \in Transiciones]_vars

\* C8 witness: a run went the whole way to ENTREGADO and returned.
C8_Witness ==
    /\ estado = ENTREGADO
    /\ resultado.resultado_workflow = "COMPLETADO_ENTREGADO"

\* C9: a timeout of the purchase wait ends the run with ABANDONADO_TIMEOUT,
\* state ABANDONADO and no shipment result; and when the timer is let fire,
\* no cart stays ABIERTO forever.
C9_AbandonoPorTimeout ==
    /\ [][(pc = "esperando_pago" /\ ~PagoDecidido /\ pc' = "terminado")
          => /\ reloj = TIMEOUT_MINUTOS
             /\ estado' = ABANDONADO
             /\ resultado'.resultado_workflow = "ABANDONADO_TIMEOUT"
             /\ resultado'.estado_carrito = ABANDONADO
             /\ resultado'.detalles_envio = EnvioVacio
             /\ envio_resultado' = EnvioVacio]_vars
    /\ <>(estado # ABIERTO)

\* C9 witness: a cart with a line and the terms accepted was abandoned.
C9_Witness ==
    /\ estado = ABANDONADO
    /\ resultado.resultado_workflow = "ABANDONADO_TIMEOUT"
    /\ terminos_aceptados
    /\ items_carrito # ItemsVacio

\* C10: a cart that was paid never becomes ABANDONADO; and once the timeout
\* has fired the cart never becomes PAGADO, no command changes any of its
\* fields, and the shipment activity is never started.
C10_UnSoloGanador ==
    /\ [][(estado \in {PAGADO, ENVIADO, ENTREGADO}) => estado' # ABANDONADO]_vars
    /\ [][estado = ABANDONADO
          => /\ UNCHANGED carrito
             /\ ~envio_request'.enviado
             /\ intentos' = 0
             /\ pc' = "terminado"]_vars

\* C10 witness: completar_compra, with the terms accepted, was handled after
\* the timeout had fired.
C10_Witness ==
    /\ estado = ABANDONADO
    /\ ultimo = "completar_compra"
    /\ terminos_aceptados
    /\ ~envio_request.enviado

\* The outcomes of the HTTP call by class
Es4xx(r) == r # ErrorDeRed /\ 400 <= r /\ r < 500
EsReintentable(r) == r = ErrorDeRed \/ r >= 500

\* C11: an attempt answered with a 4xx status is the last one whatever is
\* left of the retry budget: the run returns ENVIO_FALLIDO in that step (after
\* one attempt when it is the first), and no attempt is made after the return.
C11_4xxNoSeReintenta ==
    /\ [][\A r \in ResultadosLlamada :
             (run_envio(r) /\ Es4xx(r))
             => /\ pc' = "terminado"
                /\ resultado'.resultado_workflow = "ENVIO_FALLIDO"
                /\ intentos' = intentos + 1
                /\ (intentos = 0 => intentos' = 1)]_vars
    /\ [][pc = "terminado" => intentos' = intentos /\ pc' = "terminado"]_vars

\* C11 witness: the run ended ENVIO_FALLIDO on a 4xx answer to its first
\* attempt.
C11_Witness ==
    /\ resultado.resultado_workflow = "ENVIO_FALLIDO"
    /\ envio_resultado.error = "NonRetryableAPIError"
    /\ intentos = 1

\* C12: the activity is attempted at most 3 times; a third retryable failure
\* in a row ends the run with ENVIO_FALLIDO after exactly 3 attempts, and a
\* retryable failure before the third leaves the run waiting for a retry.
C12_MaximoTresIntentos ==
    /\ [](intentos <= 3)
    /\ [][\A r \in ResultadosLlamada :
             (run_envio(r) /\ EsReintentable(r))
             => IF intentos = 2
                THEN /\ intentos' = 3
                     /\ pc' = "terminado"
                     /\ resultado'.resultado_workflow = "ENVIO_FALLIDO"
                ELSE /\ intentos' = intentos + 1
                     /\ pc' = "en_envio"]_vars

\* C12 witness: the run ended ENVIO_FALLIDO after three attempts that failed
\* with a 5xx status.
C12_Witness ==
    /\ resultado.resultado_workflow = "ENVIO_FALLIDO"
    /\ envio_resultado.error = "HTTPStatusError"
    /\ intentos = 3
    /\ pc = "terminado"

\* C13: in the summary of a run that ends in a shipment failure, the error of
\* the shipment record tells a 4xx rejection from exhausted retries: it is
\* the non-retryable one exactly when the last attempt was answered 4xx.
C13_FallosDistinguibles ==
    [][\A r \in ResultadosLlamada :
          (run_envio(r) /\ pc' = "terminado")
          => /\ resultado'.resultado_workflow = "ENVIO_FALLIDO"
             /\ resultado'.detalles_envio.status = "FALLIDO"
             /\ (Es4xx(r) <=>
                   resultado'.detalles_envio.error = "NonRetryableAPIError")
             /\ (EsReintentable(r) <=>
                   resultado'.detalles_envio.error
                       \in {"HTTPStatusError", "RequestError"})]_vars

\* C13 witness: a run ended in a shipment failure after its retries were
\* exhausted by a transport failure.
C13_Witness ==
    /\ resultado.resultado_workflow = "ENVIO_FALLIDO"
    /\ resultado.detalles_envio.error = "RequestError"
    /\ intentos = 3

\* every quantity of the request is one the bundled endpoint accepts
CantidadesAceptadas(items) ==
    \A id \in DOMAIN items : items[id].cantidad <= LIMITE_CANTIDAD_ENVIO

\* C14: a success answered to the second attempt, after a first attempt that
\* failed with a retryable outcome, puts the cart in ENVIADO with exactly 2
\* attempts made and the payload of that response as envio_resultado; and
\* against the bundled endpoint every request whose quantities are all <= 10
\* takes exactly this course (503, then success).
C14_ExitoAlSegundoIntento ==
    /\ [][\A r \in ResultadosLlamada :
             (intentos = 1 /\ r = 200 /\ run_envio(r))
             => /\ estado' = ENVIADO
                /\ pc' = "esperando_entrega"
                /\ intentos' = 2
                /\ envio_resultado' = EnvioProgramado(envio_request)]_vars
    /\ []((endpoint = "gateway" /\ CantidadesAceptadas(envio_request.items))
          => \/ pc = "en_envio" /\ intentos = 0 /\ estado = PAGADO
             \/ pc = "en_envio" /\ intentos = 1 /\ estado = PAGADO
             \/ /\ pc \in {"esperando_entrega", "terminado"}
                /\ intentos = 2
                /\ estado \in {ENVIADO, ENTREGADO}
                /\ envio_resultado = EnvioProgramado(envio_request))

\* C14 witness: against the bundled endpoint a cart of two lines is ENVIADO
\* after two attempts.
C14_Witness ==
    /\ endpoint = "gateway"
    /\ estado = ENVIADO
    /\ intentos = 2
    /\ envio_resultado.status = "envio_programado"
    /\ Cardinality(DOMAIN items_carrito) = 2

\* the run returned the outcome of the delivered branch
CompletadoEntregado ==
    resultado.resultado_workflow = "COMPLETADO_ENTREGADO"

\* C15 (as amended): a run whose terms were accepted, that was paid before
\* the timeout fired, whose shipment succeeded within the attempt budget and
\* whose delivery was confirmed while ENVIADO returns COMPLETADO_ENTREGADO with
\* state ENTREGADO, terms accepted, the total equal to the sum of the line
\* subtotals and the successful shipment payload with its tracking id; and
\* COMPLETADO_ENTREGADO is returned by no run that lacks one of these steps.
\* The cart need not hold any item.
C15_CompletadoEntregado ==
    /\ [](CompletadoEntregado
          => /\ pc = "terminado"
             /\ estado = ENTREGADO
             /\ resultado.estado_carrito = ENTREGADO
             /\ resultado.terminos_aceptados
             /\ resultado.items_carrito = items_carrito
             /\ resultado.total_carrito
                    = recalcular_total(resultado.items_carrito)
             /\ resultado.detalles_envio = EnvioProgramado(envio_request)
             /\ resultado.detalles_envio.tracking_id # ""
             /\ envio_request.enviado
             /\ intentos \in 1..MAXIMUM_ATTEMPTS
             /\ reloj <= TIMEOUT_MINUTOS)
    /\ [][(estado' = ENTREGADO /\ estado # ENTREGADO)
          => /\ estado = ENVIADO
             /\ ultimo' = "confirmar_recepcion"
             /\ envio_resultado = EnvioProgramado(envio_request)]_vars
    /\ [][(pc = "esperando_entrega" /\ pc' = "terminado")
          => /\ estado = ENTREGADO
             /\ resultado'.resultado_workflow = "COMPLETADO_ENTREGADO"]_vars
    /\ (estado = ENTREGADO ~> CompletadoEntregado)

\* C15 witness: the run of a cart of two lines returned COMPLETADO_ENTREGADO
\* after a shipment that succeeded at its second attempt.
C15_Witness ==
    /\ CompletadoEntregado
    /\ pc = "terminado"
    /\ intentos = 2
    /\ Cardinality(DOMAIN resultado.items_carrito) = 2
    /\ resultado.total_carrito > 0

\* C15 as stated: as above, and COMPLETADO_ENTREGADO is returned only by
\* runs in which an item was added to the cart.
C15_SoloConItemsAgregados ==
    /\ [](CompletadoEntregado
          => /\ estado = ENTREGADO
             /\ resultado.terminos_aceptados
             /\ resultado.detalles_envio = EnvioProgramado(envio_request))
    /\ (<>CompletadoEntregado
        => <>(/\ ultimo \in {"agregar_item_carrito", "agregar_item_seguro"}
              /\ items_carrito # ItemsVacio))

\* the lifecycle took a terminal branch: a terminal state, or the return
\* after a failed shipment (which leaves the state PAGADO)
RamaTerminal ==
    \/ estado \in {ABANDONADO, ENTREGADO, CANCELADO}
    \/ resultado.resultado_workflow = "ENVIO_FALLIDO"

\* C16: once the lifecycle has taken a terminal branch, no step, and so no
\* signal or update, changes items, total, state, terms or shipment result.
C16_TerminalEsDefinitivo ==
    [][RamaTerminal => UNCHANGED carrito]_vars

\* C16 witness: remover_item_carrito was handled after the cart was
\* delivered and the run returned, and both lines are still in the cart.
C16_Witness ==
    /\ estado = ENTREGADO
    /\ pc = "terminado"
    /\ ultimo = "remover_item_carrito"
    /\ Cardinality(DOMAIN items_carrito) = 2

\* the record run leaves in envio_resultado when the activity failed
EsRegistroDeFallo(e) ==
    /\ e.status = "FALLIDO"
    /\ e.error \in {"NonRetryableAPIError", "HTTPStatusError", "RequestError"}

\* C17: envio_resultado is empty until the attempt sequence resolves, is
\* written by the step that resolves it, with the success payload or with a
\* failure record, and is never written again.
C17_EnvioResultadoUnaVez ==
    /\ [](envio_resultado = EnvioVacio
          <=> \/ pc \in {"esperando_pago", "en_envio"}
              \/ /\ pc = "terminado"
                 /\ resultado.resultado_workflow
                        \in {"ABANDONADO_TIMEOUT", "CANCELADO_POR_USUARIO"})
    /\ [][envio_resultado' # envio_resultado
          => /\ envio_resultado = EnvioVacio
             /\ pc = "en_envio" /\ pc' # "en_envio"
             /\ \/ /\ envio_resultado' = EnvioProgramado(envio_request)
                   /\ estado' = ENVIADO
                \/ /\ EsRegistroDeFallo(envio_resultado')
                   /\ estado' = PAGADO /\ pc' = "terminado"]_vars

\* C17 witness: the third attempt failed and the failure record it left is
\* still there after a later command.
C17_Witness ==
    /\ intentos = MAXIMUM_ATTEMPTS
    /\ EsRegistroDeFallo(envio_resultado)
    /\ pc = "terminado"
    /\ ultimo = "confirmar_recepcion"

\* C18: the activity is started once, from the purchase wait and with the
\* cart PAGADO; its request holds the items of the cart, which no command
\* changes from then on, so that the items returned at the end of the run are
\* those of the request.
C18_EnvioUnaVezConLosItemsFinales ==
    /\ [](envio_request.enviado
          => /\ estado \in {PAGADO, ENVIADO, ENTREGADO}
             /\ pc # "esperando_pago"
             /\ envio_request.items = items_carrito
             /\ (pc = "terminado"
                 => resultado.items_carrito = envio_request.items))
    /\ [](intentos > 0 => envio_request.enviado)
    /\ [][(envio_request' # envio_request \/ (pc # "en_envio" /\ pc' = "en_envio"))
          => /\ envio_request = SinRequest
             /\ pc = "esperando_pago" /\ pc' = "en_envio"
             /\ estado = PAGADO
             /\ intentos = 0
             /\ envio_request' = [enviado |-> TRUE, items |-> items_carrito]]_vars
    /\ [][(estado # ABIERTO) => UNCHANGED items_carrito]_vars

\* C18 witness: the run of a cart with one line returned after its
\* shipment, and an item offered to the update after the payment was not
\* added.
C18_Witness ==
    /\ envio_request.enviado
    /\ pc = "terminado"
    /\ intentos > 0
    /\ ultimo = "agregar_item_seguro"
    /\ Cardinality(DOMAIN envio_request.items) = 1
    /\ resultado.items_carrito = envio_request.items

\* C19: obtener_estado changes no field of the cart and nothing of the run,
\* answers with the items, total, state and terms flag the cart has at that
\* moment, and can be answered in every reachable state, also after run has
\* returned.
C19_ConsultaSoloLee ==
    /\ [][obtener_estado
          => /\ UNCHANGED <<carrito, corrutina>>
             /\ respuesta'.items_carrito = items_carrito
             /\ respuesta'.total_carrito = total_carrito
             /\ respuesta'.estado_actual = estado
             /\ respuesta'.terminos_aceptados = terminos_aceptados
             /\ DOMAIN respuesta' \cap {"detalles_envio", "resultado_workflow"}
                    = {}]_vars
    /\ [](ENABLED obtener_estado)

\* C19 witness: the query was answered after the run of a delivered cart
\* with a line had returned.
C19_Witness ==
    /\ pc = "terminado"
    /\ ultimo = "obtener_estado"
    /\ respuesta.estado_actual = ENTREGADO
    /\ respuesta.items_carrito # ItemsVacio
    /\ respuesta.items_carrito = items_carrito
    /\ respuesta.total_carrito = total_carrito

\* C22: confirmar_recepcion changes the state only when handled in ENVIADO,
\* where it sets ENTREGADO; handled in any other state it changes nothing of
\* the cart or of the run, and the cart becomes ENTREGADO only in a step
\* that handles confirmar_recepcion after the shipment succeeded.
C22_ConfirmacionSoloEnEnviado ==
    /\ [][confirmar_recepcion
          => /\ IF estado = ENVIADO
                THEN estado' = ENTREGADO
                ELSE UNCHANGED estado
             /\ UNCHANGED <<terminos_aceptados, items_carrito, total_carrito,
                            envio_resultado, corrutina>>]_vars
    /\ [][(estado' = ENTREGADO /\ estado # ENTREGADO)
          => /\ confirmar_recepcion
             /\ estado = ENVIADO
             /\ pc = "esperando_entrega"
             /\ envio_resultado.status = "envio_programado"]_vars
    /\ [][(estado' = ENVIADO /\ estado # ENVIADO)
          => /\ estado = PAGADO
             /\ ultimo' = ultimo]_vars

\* C22 witness: a confirmation handled before the shipment succeeded was
\* dropped: the cart is ENVIADO and run still waits for the delivery.
C22_Witness ==
    /\ estado = ENVIADO
    /\ pc = "esperando_entrega"
    /\ ultimo = "confirmar_recepcion"

\* C23: terminos_aceptados starts FALSE, becomes TRUE only in a step that
\* handles aceptar_terminos while the state is ABIERTO, is left as it is by
\* aceptar_terminos in every other state, and never returns to FALSE.
C23_TerminosSoloEnAbierto ==
    /\ ~terminos_aceptados
    /\ [][terminos_aceptados' # terminos_aceptados
          => /\ aceptar_terminos
             /\ estado = ABIERTO
             /\ terminos_aceptados']_vars
    /\ [][(aceptar_terminos /\ estado # ABIERTO)
          => UNCHANGED terminos_aceptados]_vars
    /\ [][terminos_aceptados => terminos_aceptados']_vars

\* C23 witness: aceptar_terminos was handled on an abandoned cart whose
\* terms had never been accepted, and they still are not.
C23_Witness ==
    /\ estado = ABANDONADO
    /\ ultimo = "aceptar_terminos"
    /\ ~terminos_aceptados
    /\ items_carrito # ItemsVacio

\* The status /carrito/agregar-item gave to the last add-item request: for
\* a request that reached the update handler it follows from the handler's
\* answer, for one whose dispatch failed from the failure.
StatusAgregarItem ==
    IF ultimo = "agregar_item_seguro"
    THEN agregar_item_carrito_http(Despacho(respuesta))
    ELSE agregar_item_carrito_http([excepcion |-> respuesta.tipo,
                                    causa |-> respuesta.mensaje])

\* C24: /carrito/agregar-item answers a rejection by the cart (stock,
\* state) with a 4xx status and every other failure of the dispatch with a
\* 5xx status.
C24_RechazoEs4xxFalloEs5xx ==
    /\ (ultimo = "agregar_item_seguro" /\ respuesta.clase = "error")
       => StatusAgregarItem \in 400..499
    /\ (ultimo = "gateway_agregar_item")
       => StatusAgregarItem \in 500..599

\* the run returned the outcome of the failed shipment
EnvioFallido ==
    resultado.resultado_workflow = "ENVIO_FALLIDO"

\* C25: the attempt that ends the shipment in failure (a 4xx answer, or the
\* last attempt of the budget failing) leaves a FALLIDO record with the error
\* in envio_resultado and returns ENVIO_FALLIDO; the cart of such a run is
\* PAGADO when it returns and stays PAGADO, never ENVIADO or ENTREGADO.
C25_EnvioFallidoTerminaEnPagado ==
    /\ [][\A r \in ResultadosLlamada :
             (/\ Es4xx(r) \/ (EsReintentable(r)
                              /\ intentos = MAXIMUM_ATTEMPTS - 1)
              /\ run_envio(r))
             => /\ envio_resultado'.status = "FALLIDO"
                /\ envio_resultado'.error # ""
                /\ envio_resultado'.tracking_id = ""
                /\ pc' = "terminado"
                /\ resultado'.resultado_workflow = "ENVIO_FALLIDO"
                /\ resultado'.detalles_envio = envio_resultado'
                /\ resultado'.estado_carrito = PAGADO
                /\ estado' = PAGADO]_vars
    /\ [](EnvioFallido
          => /\ estado = PAGADO
             /\ pc = "terminado"
             /\ envio_resultado.status = "FALLIDO"
             /\ resultado.detalles_envio = envio_resultado)
    /\ [](envio_resultado.status = "FALLIDO" => EnvioFallido)

\* C25 witness: the bundled endpoint rejected a request with a quantity
\* above its limit, and a delivery confirmation sent afterwards left the cart
\* PAGADO.
C25_Witness ==
    /\ EnvioFallido
    /\ endpoint = "gateway"
    /\ ~CantidadesAceptadas(envio_request.items)
    /\ envio_resultado.status = "FALLIDO"
    /\ ultimo = "confirmar_recepcion"
    /\ estado = PAGADO

\* C26: the time since the start only grows, and only while run waits for
\* the purchase; no handled command moves it; and whenever it has reached 30
\* minutes with the cart still ABIERTO the timeout can fire, and fires to
\* ABANDONADO, whichever command was handled last.
C26_PlazoFijo ==
    /\ reloj = 0
    /\ [][reloj' # reloj
          => /\ reloj' > reloj
             /\ reloj' <= TIMEOUT_MINUTOS
             /\ pc = "esperando_pago"
             /\ UNCHANGED <<carrito, ultimo, respuesta>>]_vars
    /\ [][(ultimo' # ultimo \/ respuesta' # respuesta \/ carrito' # carrito)
          => reloj' = reloj]_vars
    /\ []((pc = "esperando_pago" /\ estado = ABIERTO
           /\ reloj = TIMEOUT_MINUTOS)
          => ENABLED run_timeout)
    /\ [][run_timeout
          => /\ estado = ABIERTO /\ reloj = TIMEOUT_MINUTOS
             /\ estado' = ABANDONADO]_vars
    /\ [](estado = ABANDONADO => reloj = TIMEOUT_MINUTOS)

\* C26 witness: the last command handled before the timeout fired was an
\* update that added an item, and the cart was abandoned at 30 minutes.
C26_Witness ==
    /\ estado = ABANDONADO
    /\ reloj = TIMEOUT_MINUTOS
    /\ ultimo = "agregar_item_seguro"
    /\ respuesta.clase = "exito"
    /\ terminos_aceptados

\* C27: the cart is never CANCELADO and no run returns
\* CANCELADO_POR_USUARIO: a run that has returned did so with
\* ABANDONADO_TIMEOUT, ENVIO_FALLIDO or COMPLETADO_ENTREGADO, and one that has
\* not returned has no outcome.
C27_CanceladoInalcanzable ==
    /\ estado # CANCELADO
    /\ resultado.estado_carrito # CANCELADO
    /\ resultado.resultado_workflow # "CANCELADO_POR_USUARIO"
    /\ pc = "terminado"
       => resultado.resultado_workflow
              \in {"ABANDONADO_TIMEOUT", "ENVIO_FALLIDO", "COMPLETADO_ENTREGADO"}
    /\ pc # "terminado" => resultado = SinResultado

\* C27 witness: the cart was emptied by removing its line, which cancels
\* nothing: the run waited on and returned ABANDONADO_TIMEOUT.
C27_Witness ==
    /\ pc = "terminado"
    /\ resultado.resultado_workflow = "ABANDONADO_TIMEOUT"
    /\ ultimo = "remover_item_carrito"
    /\ items_carrito = ItemsVacio
    /\ ~terminos_aceptados

\* C28: /envio/confirmar-recepcion answers ciclo_vida_finalizado only for
\* a run that returned COMPLETADO_ENTREGADO.
C28_FinalizadoSoloSiEntregado ==
    (ultimo = "gateway_confirmar_recepcion"
     /\ respuesta.tipo = "ciclo_vida_finalizado")
    => respuesta.resultado_final.resultado_workflow = "COMPLETADO_ENTREGADO"

\* the alerts a round appends: one for each component whose newly observed
\* status differs from its last recorded one, in the order of the round
RECURSIVE AlertasDe(_, _, _)
AlertasDe(orden, antes, visto) ==
    IF orden = <<>> THEN <<>>
    ELSE LET c == Head(orden)
             resto == AlertasDe(Tail(orden), antes, visto)
         IN IF visto[c] # antes[c]
            THEN <<[component |-> c, status |-> visto[c]]>> \o resto
            ELSE resto

\* C29: the history never holds more than ALERT_HISTORY_MAX records, and
\* every round leaves in it the newest records, up to the cap, of what it
\* held followed by one alert for each component whose observed status
\* differs from the recorded one, and records the observed statuses.
C29_HistorialAcotado ==
    /\ [](Len(alerts) <= alert_history_max)
    /\ [][rondas' # rondas
          => LET todas == alerts \o AlertasDe(<<"temporal", "gateway", "workers">>,
                                              component_status, ultimo_chequeo')
                 n == IF Len(todas) < alert_history_max
                      THEN Len(todas) ELSE alert_history_max
             IN /\ alerts' = SubSeq(todas, Len(todas) - n + 1, Len(todas))
                /\ component_status' = ultimo_chequeo']_vars

====
